---- MODULE Spec2Model ----
(***************************************************************************)
(* MoonBoard: the moodboard reducer (moodboardReducer) and the undo/redo   *)
(* history kept by MoodboardCanvas.                                        *)
(*                                                                         *)
(* JavaScript objects are modelled as functions with string domains, so    *)
(* that object spread ({...a, ...b}) is Merge and "delete obj[k]" is       *)
(* Delete.  Object identity of the three dependencies of the history       *)
(* effect (state.stickers, state.segments, state.segmentOrder) is modelled *)
(* by the token depsId: two states carry the same token exactly when the   *)
(* three objects are the same JavaScript objects.                          *)
(*                                                                         *)
(* The reducer is the one with stickerGroups, selectedStickerIds and       *)
(* LOAD_STATE (listed in StickerPalette.test.tsx from line 134); the       *)
(* history is the one of components/board/MoodboardCanvas.tsx.  A handler  *)
(* and the effect it schedules are two steps; no handler runs while the    *)
(* effect is pending, as React flushes passive effects before the next     *)
(* event is handled.                                                       *)
(***************************************************************************)
EXTENDS Integers, Sequences, FiniteSets, TLC

VARIABLES
  state,          \* the reducer state (useReducer)
  depsId,         \* identity of (state.stickers, state.segments, state.segmentOrder)
  history,        \* useState<Array<any>>([]) : snapshots, each [state, depsId]
  historyIndex,   \* useState(-1), 0-based as in the code
  effectPending,  \* the history effect is scheduled (its dependencies changed)
  mounted,        \* MoodboardCanvas is mounted on top of the provider
  thrown,         \* message of the Error the last dispatch threw, "" if none
  storage,        \* localStorage item 'moodboard-state'
  timers,         \* pending timeouts of the debounced save, each with the state it captured
  manager,        \* StickerGroupManager: selectionBox, its listeners' closure, the pointer
  gesture,        \* the resize or rotate interaction in progress on a sticker
  trail           \* the last two handlers run and what they started from

vars ==
  <<state, depsId, history, historyIndex, effectPending, mounted, thrown, storage, timers,
    manager, gesture, trail>>

----------------------------------------------------------------------------
(* Bounds *)

MaxOrder == 4     \* longest segmentOrder built by ADD_SEGMENT
MaxHistory == 4   \* longest history list
MaxSel == 4       \* longest selectedStickerIds built by SELECT_STICKER
MaxGroup == 3     \* longest stickerIds of a group built by ADD_TO_GROUP

SegIds == {"day-1", "day-2"}
StickerIds == {"s1", "s2"}
GroupIds == {"g1"}
Coords == {0, 1}
BoxCoords == 0..2   \* canvas coordinates of pointer events

----------------------------------------------------------------------------
(* JavaScript object helpers *)

EmptyObj == [k \in {} |-> 0]

Has(o, k) == k \in DOMAIN o

\* {...base, ...over}
Merge(base, over) ==
  [k \in (DOMAIN base) \cup (DOMAIN over) |->
     IF k \in DOMAIN over THEN over[k] ELSE base[k]]

\* {...o, [k]: v}
Put(o, k, v) == [x \in (DOMAIN o) \cup {k} |-> IF x = k THEN v ELSE o[x]]

\* copy = {...o}; delete copy[k]
Delete(o, k) == [x \in (DOMAIN o) \ {k} |-> o[x]]

\* o[k] || {} for an object spread: spreading undefined yields nothing
Get(o, k) == IF k \in DOMAIN o THEN o[k] ELSE EmptyObj

\* arr.filter(x => x !== v)
FilterOut(arr, v) == SelectSeq(arr, LAMBDA x : x # v)

\* p.f || d for a string field (undefined and '' are falsy)
OrStr(p, f, d) == IF Has(p, f) /\ p[f] # "" THEN p[f] ELSE d

\* p.f || d for a numeric field (undefined and 0 are falsy)
OrNum(p, f, d) == IF Has(p, f) /\ p[f] # 0 THEN p[f] ELSE d

\* p.f || d for an object field (only undefined is falsy)
OrObj(p, f, d) == IF Has(p, f) THEN p[f] ELSE d

\* ('f' in updates) ? updates.f : existing.f ; an absent field stays absent
Keep(upd, old, f) ==
  IF Has(upd, f) THEN [k \in {f} |-> upd[f]]
  ELSE IF Has(old, f) THEN [k \in {f} |-> old[f]]
  ELSE EmptyObj

Range(seq) == {seq[i] : i \in 1..Len(seq)}

----------------------------------------------------------------------------
(* The reducer state *)

initialState ==
  [ segments |-> [k \in {"day-1"} |->
       [id |-> "day-1", title |-> "Day 1", order |-> 0, width |-> 300, height |-> 300]],
    stickers |-> EmptyObj,
    segmentOrder |-> <<"day-1">>,
    isDragging |-> FALSE,
    selectedStickerIds |-> <<>>,
    selectedStickerId |-> "null",
    stickerGroups |-> EmptyObj,
    templates |-> EmptyObj,
    isMultiSelectMode |-> FALSE ]

StickerTypes == {"text", "image", "icon", "link", "map", "custom"}

\* ADD_STICKER that stores the payload as it came, without defaults
validatedSticker_NoDefaults(sticker) == sticker

\* the switch on sticker.type in ADD_STICKER
validatedSticker(sticker) ==
  CASE sticker.type = "text" ->
         Merge(sticker, [type |-> "text", content |-> OrStr(sticker, "content", "")])
    [] sticker.type = "image" ->
         Merge(sticker, [type |-> "image", content |-> OrStr(sticker, "content", ""),
                         originalSize |-> OrObj(sticker, "originalSize", [width |-> 0, height |-> 0])])
    [] sticker.type = "icon" ->
         Merge(sticker, [type |-> "icon", content |-> OrStr(sticker, "content", ""),
                         icon |-> OrStr(sticker, "icon", "star")])
    [] sticker.type = "link" ->
         Merge(sticker, [type |-> "link", content |-> OrStr(sticker, "content", ""),
                         title |-> OrStr(sticker, "title", "")])
    [] sticker.type = "map" ->
         Merge(sticker, [type |-> "map", content |-> OrStr(sticker, "content", ""),
                         location |-> OrObj(sticker, "location", [lat |-> 0, lng |-> 0, zoom |-> 1])])
    [] sticker.type = "custom" ->
         Merge(sticker, [type |-> "custom", content |-> OrStr(sticker, "content", ""),
                         template |-> OrStr(sticker, "template", ""),
                         data |-> OrObj(sticker, "data", EmptyObj)])

\* the switch on existingSticker.type in UPDATE_STICKER (there is no 'icon' case)
updatedSticker(existing, updates) ==
  LET base == Merge(existing, updates) IN
  CASE existing.type = "text" -> Merge(base, [type |-> "text"])
    [] existing.type = "image" ->
         Merge(Merge(base, [type |-> "image"]), Keep(updates, existing, "originalSize"))
    [] existing.type = "link" ->
         Merge(Merge(base, [type |-> "link"]), Keep(updates, existing, "title"))
    [] existing.type = "map" ->
         Merge(Merge(base, [type |-> "map"]), Keep(updates, existing, "location"))
    [] existing.type = "custom" ->
         Merge(Merge(Merge(base, [type |-> "custom"]), Keep(updates, existing, "template")),
               Keep(updates, existing, "data"))

\* the reducer throws: the action fails and no new state is produced
Throws(s, a) ==
  CASE a.type = "ADD_STICKER" -> a.payload.type \notin StickerTypes
    [] a.type = "UPDATE_STICKER" ->
         /\ a.payload.id \in DOMAIN s.stickers
         /\ s.stickers[a.payload.id].type \notin {"text", "image", "link", "map", "custom"}
    [] a.type \in {"ADD_TO_GROUP", "REMOVE_FROM_GROUP"} ->
         a.payload.groupId \notin DOMAIN s.stickerGroups
    [] OTHER -> FALSE

ADD_SEGMENT(s, p) ==
  LET newSegment == [id |-> p.id,
                     title |-> OrStr(p, "title", "New Segment"),
                     order |-> OrNum(p, "order", 0),
                     width |-> OrNum(p, "width", 300),
                     height |-> OrNum(p, "height", 300)] IN
  [s EXCEPT !.segments = Put(s.segments, p.id, newSegment),
            !.segmentOrder = Append(s.segmentOrder, p.id)]

\* REMOVE_SEGMENT without its cascade: the stickers of the segment are kept
RemoveStickersOf_NoCascade(stickers, id) == stickers

\* the cascade of REMOVE_SEGMENT over the stickers
RemoveStickersOf(stickers, id) ==
  [k \in {x \in DOMAIN stickers : stickers[x].timeSegmentId # id} |-> stickers[k]]

REMOVE_SEGMENT(s, p) ==
  [s EXCEPT !.segments = Delete(s.segments, p.id),
            !.stickers = RemoveStickersOf(s.stickers, p.id),
            !.segmentOrder = FilterOut(s.segmentOrder, p.id)]

RENAME_SEGMENT(s, p) ==
  [s EXCEPT !.segments =
     Put(s.segments, p.id, Merge(Get(s.segments, p.id), [title |-> p.title]))]

RESIZE_SEGMENT(s, p) ==
  [s EXCEPT !.segments =
     Put(s.segments, p.id,
         Merge(Get(s.segments, p.id), [width |-> p.width, height |-> p.height]))]

REORDER_SEGMENTS(s, p) == [s EXCEPT !.segmentOrder = p.segmentOrder]

UPDATE_SEGMENT(s, p) ==
  [s EXCEPT !.segments =
     Put(s.segments, p.id, Merge(Get(s.segments, p.id), Delete(p, "id")))]

ADD_STICKER(s, p) ==
  [s EXCEPT !.stickers = Put(s.stickers, p.id, validatedSticker(p))]

\* REMOVE_STICKER that deletes the sticker but leaves groups and selection alone
REMOVE_STICKER_StickerOnly(s, p) ==
  [s EXCEPT !.stickers = Delete(s.stickers, p.id)]

REMOVE_STICKER(s, p) ==
  [s EXCEPT !.stickers = Delete(s.stickers, p.id),
            !.stickerGroups =
               [g \in DOMAIN s.stickerGroups |->
                  Merge(s.stickerGroups[g],
                        [stickerIds |-> FilterOut(s.stickerGroups[g].stickerIds, p.id)])],
            !.selectedStickerIds = FilterOut(s.selectedStickerIds, p.id)]

UPDATE_STICKER(s, p) ==
  IF p.id \notin DOMAIN s.stickers THEN s
  ELSE [s EXCEPT !.stickers =
          Put(s.stickers, p.id, updatedSticker(s.stickers[p.id], Delete(p, "id")))]

\* MOVE_STICKER that updates the position but not the owning segment
MOVE_STICKER_PositionOnly(s, p) ==
  IF p.id \notin DOMAIN s.stickers THEN s
  ELSE [s EXCEPT !.stickers =
          Put(s.stickers, p.id, Merge(s.stickers[p.id], [x |-> p.x, y |-> p.y]))]

MOVE_STICKER(s, p) ==
  IF p.id \notin DOMAIN s.stickers THEN s
  ELSE [s EXCEPT !.stickers =
          Put(s.stickers, p.id,
              Merge(s.stickers[p.id],
                    [x |-> p.x, y |-> p.y, timeSegmentId |-> p.timeSegmentId]))]

RESIZE_STICKER_Upsert(s, p) ==
  [s EXCEPT !.stickers =
     Put(s.stickers, p.id,
         Merge(IF p.id \in DOMAIN s.stickers THEN s.stickers[p.id] ELSE EmptyObj,
               [width |-> p.width, height |-> p.height]))]

RESIZE_STICKER(s, p) ==
  IF p.id \notin DOMAIN s.stickers THEN s
  ELSE [s EXCEPT !.stickers =
          Put(s.stickers, p.id,
              Merge(s.stickers[p.id], [width |-> p.width, height |-> p.height]))]

ROTATE_STICKER(s, p) ==
  IF p.id \notin DOMAIN s.stickers THEN s
  ELSE [s EXCEPT !.stickers =
          Put(s.stickers, p.id, Merge(s.stickers[p.id], [rotation |-> p.rotation]))]

SET_STICKER_ZINDEX(s, p) ==
  IF p.id \notin DOMAIN s.stickers THEN s
  ELSE [s EXCEPT !.stickers =
          Put(s.stickers, p.id, Merge(s.stickers[p.id], [zIndex |-> p.zIndex]))]

\* SELECT_STICKER that replaces the selection whatever the mode
SELECT_STICKER_AlwaysReplace(s, p) == [s EXCEPT !.selectedStickerIds = <<p.id>>]

SELECT_STICKER(s, p) ==
  [s EXCEPT !.selectedStickerIds =
     IF s.isMultiSelectMode THEN Append(s.selectedStickerIds, p.id) ELSE <<p.id>>]

DESELECT_STICKER(s, p) ==
  [s EXCEPT !.selectedStickerIds = FilterOut(s.selectedStickerIds, p.id)]

CLEAR_SELECTION(s) == [s EXCEPT !.selectedStickerIds = <<>>]

SET_MULTI_SELECT_MODE(s, p) == [s EXCEPT !.isMultiSelectMode = p.enabled]

TOGGLE_MULTI_SELECT(s, p) ==
  [s EXCEPT !.isMultiSelectMode = p.enabled,
            !.selectedStickerIds = IF p.enabled THEN s.selectedStickerIds ELSE <<>>]

SELECT_STICKERS(s, p) == [s EXCEPT !.selectedStickerIds = p.stickerIds]

START_DRAG(s) == [s EXCEPT !.isDragging = TRUE]

END_DRAG(s) == [s EXCEPT !.isDragging = FALSE]

CREATE_STICKER_GROUP(s, p) ==
  [s EXCEPT !.stickerGroups = Put(s.stickerGroups, p.id, p)]

DELETE_STICKER_GROUP(s, p) ==
  [s EXCEPT !.stickerGroups = Delete(s.stickerGroups, p.id)]

ADD_TO_GROUP(s, p) ==
  [s EXCEPT !.stickerGroups =
     Put(s.stickerGroups, p.groupId,
         Merge(s.stickerGroups[p.groupId],
               [stickerIds |-> Append(s.stickerGroups[p.groupId].stickerIds, p.stickerId)]))]

REMOVE_FROM_GROUP(s, p) ==
  [s EXCEPT !.stickerGroups =
     Put(s.stickerGroups, p.groupId,
         Merge(s.stickerGroups[p.groupId],
               [stickerIds |-> FilterOut(s.stickerGroups[p.groupId].stickerIds, p.stickerId)]))]

ADD_TEMPLATE(s, p) == [s EXCEPT !.templates = Put(s.templates, p.id, p.template)]

REMOVE_TEMPLATE(s, p) == [s EXCEPT !.templates = Delete(s.templates, p.id)]

SET_DRAGGING(s, p) == [s EXCEPT !.isDragging = p.isDragging]

LOAD_STATE(s, p) == p

\* the message of the Error thrown, "" when the action does not throw
ErrorMessage(s, a) ==
  IF ~Throws(s, a) THEN ""
  ELSE IF a.type \in {"ADD_STICKER", "UPDATE_STICKER"} THEN "Invalid sticker type"
  ELSE "TypeError"

\* the switch on action.type
reducerCases(s, a) ==
  CASE a.type = "ADD_SEGMENT" -> ADD_SEGMENT(s, a.payload)
    [] a.type = "REMOVE_SEGMENT" -> REMOVE_SEGMENT(s, a.payload)
    [] a.type = "RENAME_SEGMENT" -> RENAME_SEGMENT(s, a.payload)
    [] a.type = "RESIZE_SEGMENT" -> RESIZE_SEGMENT(s, a.payload)
    [] a.type = "REORDER_SEGMENTS" -> REORDER_SEGMENTS(s, a.payload)
    [] a.type = "UPDATE_SEGMENT" -> UPDATE_SEGMENT(s, a.payload)
    [] a.type = "ADD_STICKER" -> ADD_STICKER(s, a.payload)
    [] a.type = "REMOVE_STICKER" -> REMOVE_STICKER(s, a.payload)
    [] a.type = "UPDATE_STICKER" -> UPDATE_STICKER(s, a.payload)
    [] a.type = "MOVE_STICKER" -> MOVE_STICKER(s, a.payload)
    [] a.type = "RESIZE_STICKER" -> RESIZE_STICKER(s, a.payload)
    [] a.type = "ROTATE_STICKER" -> ROTATE_STICKER(s, a.payload)
    [] a.type = "SET_STICKER_ZINDEX" -> SET_STICKER_ZINDEX(s, a.payload)
    [] a.type = "SELECT_STICKER" -> SELECT_STICKER(s, a.payload)
    [] a.type = "DESELECT_STICKER" -> DESELECT_STICKER(s, a.payload)
    [] a.type = "CLEAR_SELECTION" -> CLEAR_SELECTION(s)
    [] a.type = "SET_MULTI_SELECT_MODE" -> SET_MULTI_SELECT_MODE(s, a.payload)
    [] a.type = "TOGGLE_MULTI_SELECT" -> TOGGLE_MULTI_SELECT(s, a.payload)
    [] a.type = "SELECT_STICKERS" -> SELECT_STICKERS(s, a.payload)
    [] a.type = "START_DRAG" -> START_DRAG(s)
    [] a.type = "END_DRAG" -> END_DRAG(s)
    [] a.type = "CREATE_STICKER_GROUP" -> CREATE_STICKER_GROUP(s, a.payload)
    [] a.type = "DELETE_STICKER_GROUP" -> DELETE_STICKER_GROUP(s, a.payload)
    [] a.type = "ADD_TO_GROUP" -> ADD_TO_GROUP(s, a.payload)
    [] a.type = "REMOVE_FROM_GROUP" -> REMOVE_FROM_GROUP(s, a.payload)
    [] a.type = "ADD_TEMPLATE" -> ADD_TEMPLATE(s, a.payload)
    [] a.type = "REMOVE_TEMPLATE" -> REMOVE_TEMPLATE(s, a.payload)
    [] a.type = "SET_DRAGGING" -> SET_DRAGGING(s, a.payload)
    [] a.type = "LOAD_STATE" -> LOAD_STATE(s, a.payload)
    [] OTHER -> s

\* a reducer whose ADD_STICKER stores the payload without looking at its type
moodboardReducer_NoTypeCheck(s, a) ==
  IF a.type = "ADD_STICKER"
  THEN [s EXCEPT !.stickers = Put(s.stickers, a.payload.id, a.payload)]
  ELSE IF Throws(s, a) THEN s ELSE reducerCases(s, a)

moodboardReducer(s, a) == IF Throws(s, a) THEN s ELSE reducerCases(s, a)

----------------------------------------------------------------------------
(* Dispatch, and the history kept by MoodboardCanvas *)

\* the reducer returns new objects for stickers, segments or segmentOrder,
\* the dependencies of the history effect
NewDeps_MoveInPlace(s, a) ==
  CASE Throws(s, a) -> FALSE
    [] a.type \in {"ADD_SEGMENT", "REMOVE_SEGMENT", "RENAME_SEGMENT", "RESIZE_SEGMENT",
                   "REORDER_SEGMENTS", "UPDATE_SEGMENT", "ADD_STICKER", "REMOVE_STICKER"} -> TRUE
    [] a.type \in {"UPDATE_STICKER", "RESIZE_STICKER", "ROTATE_STICKER",
                   "SET_STICKER_ZINDEX"} -> a.payload.id \in DOMAIN s.stickers
    [] OTHER -> FALSE

NewDeps(s, a) ==
  CASE Throws(s, a) -> FALSE
    [] a.type \in {"ADD_SEGMENT", "REMOVE_SEGMENT", "RENAME_SEGMENT", "RESIZE_SEGMENT",
                   "REORDER_SEGMENTS", "UPDATE_SEGMENT", "ADD_STICKER", "REMOVE_STICKER"} -> TRUE
    [] a.type \in {"UPDATE_STICKER", "MOVE_STICKER", "RESIZE_STICKER", "ROTATE_STICKER",
                   "SET_STICKER_ZINDEX"} -> a.payload.id \in DOMAIN s.stickers
    [] OTHER -> FALSE

\* the reducer returns a new state object (every case but the early
\* "return state" of an absent sticker id, an unknown action and a throw)
NewState(s, a) ==
  CASE Throws(s, a) -> FALSE
    [] a.type \in {"UPDATE_STICKER", "MOVE_STICKER", "RESIZE_STICKER", "ROTATE_STICKER",
                   "SET_STICKER_ZINDEX"} -> a.payload.id \in DOMAIN s.stickers
    [] a.type = "UPDATE_STICKER_ZINDEX" -> FALSE
    [] OTHER -> TRUE

\* a timeout that arms without clearing the one armed before
ArmSave_NoClear(ts, s) == ts \cup {[state |-> s]}

\* the debounced save effect: clearTimeout(saveTimeout.current), then
\* saveTimeout.current = setTimeout(() => setItem(..., stringify(state)), 1000)
ArmSave(ts, s) == {[state |-> s]}

\* localStorage.getItem returns null
NoItem == [present |-> FALSE]

\* JSON.stringify(v): the item stored is a string, not the object
Stringify(v) == [present |-> TRUE, json |-> v]

\* JSON.parse(item)
Parse(item) == item.json

\* StickerGroupManager before any pointer event
ManagerIdle ==
  [selectionBox |-> "null", isDrawing |-> FALSE, closureBox |-> "null",
   startingMousePosition |-> [x |-> 0, y |-> 0], effectPending |-> FALSE,
   pointerDown |-> FALSE, pointerFrom |-> [x |-> 0, y |-> 0],
   pointerAt |-> [x |-> 0, y |-> 0]]

NoGesture == [kind |-> "none"]

SetMax(S) == CHOOSE m \in S : \A x \in S : x <= m

\* a token no live or recorded state carries: the identity of a new object
FreshId == 1 + SetMax({depsId} \cup {history[i].depsId : i \in 1..Len(history)})

\* what a handler started from
Entry(op) ==
  [op |-> op, state |-> state, history |-> history, historyIndex |-> historyIndex,
   storage |-> storage]

Push(t, e) == IF Len(t) < 2 THEN Append(t, e) ELSE <<t[2], e>>

\* the reducer applied to the actions a handler dispatches, in order
RECURSIVE ReduceAll(_, _)
ReduceAll(s, acts) ==
  IF acts = <<>> THEN s ELSE ReduceAll(moodboardReducer(s, Head(acts)), Tail(acts))

\* the state the n-th dispatch of a handler is applied to
StateBefore(s, acts, n) == ReduceAll(s, SubSeq(acts, 1, n - 1))

\* the dispatches of one handler: React batches them, the reducer runs for
\* each in order, the component re-renders once, the debounced save is armed
\* again when state is a new object, and the history effect is scheduled when
\* one of its dependencies is a new object
\* one handler, entered as op, that dispatches the actions acts in order
Handled(op, acts) ==
  LET changed == \E n \in 1..Len(acts) : NewDeps(StateBefore(state, acts, n), acts[n])
      replaced == \E n \in 1..Len(acts) : NewState(StateBefore(state, acts, n), acts[n])
      failed == {n \in 1..Len(acts) : Throws(StateBefore(state, acts, n), acts[n])}
      d2 == IF mounted /\ changed THEN FreshId ELSE depsId
  IN
  /\ ~effectPending
  /\ (d2 # depsId) => Len(history) < MaxHistory
  /\ state' = ReduceAll(state, acts)
  /\ depsId' = d2
  /\ effectPending' = (d2 # depsId)
  /\ thrown' = IF acts = <<>> THEN thrown
               ELSE IF failed = {} THEN ""
               ELSE LET n == CHOOSE m \in failed : \A k \in failed : m <= k IN
                    ErrorMessage(StateBefore(state, acts, n), acts[n])
  /\ timers' = IF mounted /\ replaced THEN ArmSave(timers, state') ELSE timers
  /\ trail' = IF mounted THEN Push(trail, Entry(op)) ELSE trail
  /\ UNCHANGED <<history, historyIndex, mounted, storage>>

Dispatched(acts) == Handled(acts[1].type, acts)

\* dispatch(a) from a handler that touches no component-local state
Dispatch(a) == Dispatched(<<a>>) /\ UNCHANGED <<manager, gesture>>

\* useEffect(..., [state.stickers, state.segments, state.segmentOrder])
HistoryEffect ==
  /\ effectPending
  /\ LET snap == [state |-> state, depsId |-> depsId] IN
     IF historyIndex = -1
     THEN /\ history' = <<snap>>
          /\ historyIndex' = 0
     ELSE /\ history' = Append(IF historyIndex < Len(history) - 1
                               THEN SubSeq(history, 1, historyIndex + 1)
                               ELSE history, snap)
          /\ historyIndex' = historyIndex + 1
  /\ effectPending' = FALSE
  /\ UNCHANGED <<state, depsId, mounted, thrown, storage, timers, manager, gesture, trail>>

handleUndo_IndexOnly ==
  /\ mounted
  /\ ~effectPending
  /\ trail' = Push(trail, Entry("Undo"))
  /\ historyIndex' = IF historyIndex > 0 THEN historyIndex - 1 ELSE historyIndex
  /\ UNCHANGED <<state, depsId, effectPending, thrown, timers>>
  /\ UNCHANGED <<history, mounted, storage, manager, gesture>>

handleUndo ==
  /\ mounted
  /\ ~effectPending
  /\ trail' = Push(trail, Entry("Undo"))
  /\ IF historyIndex > 0
     THEN LET newIndex == historyIndex - 1 IN
          /\ historyIndex' = newIndex
          /\ state' = moodboardReducer(state, [type |-> "LOAD_STATE", payload |-> history[newIndex + 1].state])
          /\ depsId' = history[newIndex + 1].depsId
          /\ effectPending' = (history[newIndex + 1].depsId # depsId)
          /\ thrown' = ""
          /\ timers' = ArmSave(timers, state')
     ELSE UNCHANGED <<historyIndex, state, depsId, effectPending, thrown, timers>>
  /\ UNCHANGED <<history, mounted, storage, manager, gesture>>

\* Redo that advances the index but does not load the snapshot
handleRedo_NoLoad ==
  /\ mounted
  /\ ~effectPending
  /\ trail' = Push(trail, Entry("Redo"))
  /\ IF historyIndex < Len(history) - 1
     THEN /\ historyIndex' = historyIndex + 1
          /\ UNCHANGED <<state, depsId, effectPending, thrown, timers>>
     ELSE UNCHANGED <<historyIndex, state, depsId, effectPending, thrown, timers>>
  /\ UNCHANGED <<history, mounted, storage, manager, gesture>>

handleRedo ==
  /\ mounted
  /\ ~effectPending
  /\ trail' = Push(trail, Entry("Redo"))
  /\ IF historyIndex < Len(history) - 1
     THEN LET newIndex == historyIndex + 1 IN
          /\ historyIndex' = newIndex
          /\ state' = moodboardReducer(state, [type |-> "LOAD_STATE", payload |-> history[newIndex + 1].state])
          /\ depsId' = history[newIndex + 1].depsId
          /\ effectPending' = (history[newIndex + 1].depsId # depsId)
          /\ thrown' = ""
          /\ timers' = ArmSave(timers, state')
     ELSE UNCHANGED <<historyIndex, state, depsId, effectPending, thrown, timers>>
  /\ UNCHANGED <<history, mounted, storage, manager, gesture>>

----------------------------------------------------------------------------
(* Persistence: the storage module and the load and save effects of        *)
(* MoodboardCanvas                                                         *)

STATE_VERSION == 1

\* what saveState stores under 'moodboard-state'
StoredState(v, s) == [version |-> v, state |-> s, timestamp |-> 0]

isValidMoodboardState(s) ==
  /\ Has(s, "segments")
  /\ Has(s, "stickers")
  /\ Has(s, "segmentOrder")

\* loadState(): the state to install, or the error it throws
loadState(item) ==
  IF ~item.present THEN [error |-> "", found |-> FALSE]
  ELSE LET storedState == Parse(item) IN
       IF ~Has(storedState, "version") \/ storedState.version # STATE_VERSION
       THEN [error |-> "StateError", found |-> FALSE]
       ELSE IF ~isValidMoodboardState(storedState.state)
       THEN [error |-> "ValidationError", found |-> FALSE]
       ELSE [error |-> "", found |-> TRUE, state |-> storedState.state]

\* the page is loaded: the provider is constructed, MoodboardCanvas mounts
\* and its effects run in order: the load effect dispatches LOAD_STATE with
\* whatever JSON is stored, the save effect arms its timeout, the history
\* effect records the initial state; the LOAD_STATE then renders and leaves
\* the history effect pending for the loaded state
PageLoad ==
  /\ mounted' = TRUE
  /\ state' = IF storage.present
              THEN moodboardReducer(initialState,
                                    [type |-> "LOAD_STATE", payload |-> Parse(storage)])
              ELSE initialState
  /\ history' = <<[state |-> initialState, depsId |-> 0]>>
  /\ historyIndex' = 0
  /\ depsId' = IF storage.present THEN 1 ELSE 0
  /\ effectPending' = storage.present
  /\ timers' = ArmSave({}, state')
  /\ thrown' = ""
  /\ trail' = <<>>
  /\ UNCHANGED <<storage, manager, gesture>>

\* a timeout of the debounced save fires, 1000 ms after it was armed:
\* localStorage.setItem('moodboard-state', JSON.stringify(state)) with the
\* state of the render that armed it
TimerFires ==
  /\ mounted
  /\ \E t \in timers :
       /\ storage' = Stringify(t.state)
       /\ timers' = timers \ {t}
  /\ UNCHANGED <<state, depsId, history, historyIndex, effectPending, mounted, thrown,
                 manager, gesture, trail>>

----------------------------------------------------------------------------
(* StickerGroupManager: the selection box *)

Min(a, b) == IF a < b THEN a ELSE b

Max(a, b) == IF a > b THEN a ELSE b

\* selectionRect of handleMouseUp: the box normalised by min/max
selectionRect(box) ==
  [left |-> Min(box.startX, box.endX), right |-> Max(box.startX, box.endX),
   top |-> Min(box.startY, box.endY), bottom |-> Max(box.startY, box.endY)]

stickerRect(sticker) ==
  [left |-> sticker.x, right |-> sticker.x + sticker.width,
   top |-> sticker.y, bottom |-> sticker.y + sticker.height]

\* the filter of handleMouseUp
Intersects(sr, box) ==
  /\ sr.left < box.right
  /\ sr.right > box.left
  /\ sr.top < box.bottom
  /\ sr.bottom > box.top

\* Object.values(state.stickers).filter(...).map(s => s.id)
selectedStickers(stickers, box) ==
  LET hits == {k \in DOMAIN stickers :
                 Intersects(stickerRect(stickers[k]), selectionRect(box))} IN
  CHOOSE q \in [1..Cardinality(hits) -> hits] : Range(q) = hits

\* the listeners exist only while the effect ran with isMultiSelectMode
ListenersAttached == state.isMultiSelectMode

\* mousedown on the canvas
handleMouseDown(pt) ==
  /\ ~manager.pointerDown
  /\ ~manager.effectPending
  /\ manager' =
       IF ListenersAttached
       THEN [manager EXCEPT !.pointerDown = TRUE, !.pointerFrom = pt, !.pointerAt = pt,
                            !.startingMousePosition = pt,
                            !.isDrawing = TRUE,
                            !.selectionBox = [startX |-> pt.x, startY |-> pt.y,
                                              endX |-> pt.x, endY |-> pt.y],
                            !.effectPending = TRUE]
       ELSE [manager EXCEPT !.pointerDown = TRUE, !.pointerFrom = pt, !.pointerAt = pt]
  /\ UNCHANGED <<state, depsId, history, historyIndex, effectPending, mounted, thrown,
                 storage, timers, gesture, trail>>

\* the effect runs again because selectionBox, one of its dependencies, is a
\* new object: the old listeners are removed and new ones are created, with
\* their own "let isDrawing = false" and the selectionBox of this render
ManagerEffect ==
  /\ manager.effectPending
  /\ manager' = [manager EXCEPT !.isDrawing = FALSE,
                                !.startingMousePosition = [x |-> 0, y |-> 0],
                                !.closureBox = manager.selectionBox,
                                !.effectPending = FALSE]
  /\ UNCHANGED <<state, depsId, history, historyIndex, effectPending, mounted, thrown,
                 storage, timers, gesture, trail>>

\* mousemove on the document while the button is down
handleMouseMove(pt) ==
  /\ manager.pointerDown
  /\ ~manager.effectPending
  /\ pt # manager.pointerAt
  /\ manager' =
       IF ListenersAttached /\ manager.isDrawing /\ manager.closureBox # "null"
       THEN [manager EXCEPT !.pointerAt = pt,
                            !.selectionBox =
                               [startX |-> manager.startingMousePosition.x,
                                startY |-> manager.startingMousePosition.y,
                                endX |-> pt.x, endY |-> pt.y],
                            !.effectPending = TRUE]
       ELSE [manager EXCEPT !.pointerAt = pt]
  /\ UNCHANGED <<state, depsId, history, historyIndex, effectPending, mounted, thrown,
                 storage, timers, gesture, trail>>

\* mouseup on the document
handleMouseUp ==
  /\ manager.pointerDown
  /\ ~manager.effectPending
  /\ IF ListenersAttached /\ manager.isDrawing /\ manager.closureBox # "null"
     THEN LET ids == selectedStickers(state.stickers, manager.closureBox) IN
          /\ manager' = [manager EXCEPT !.pointerDown = FALSE, !.isDrawing = FALSE,
                                        !.selectionBox = "null", !.effectPending = TRUE]
          /\ state' = IF Len(ids) > 0
                      THEN moodboardReducer(state, [type |-> "SELECT_STICKERS",
                                                    payload |-> [stickerIds |-> ids]])
                      ELSE state
     ELSE /\ manager' = [manager EXCEPT !.pointerDown = FALSE]
          /\ state' = state
  /\ UNCHANGED <<depsId, history, historyIndex, effectPending, mounted, thrown,
                 storage, timers, gesture, trail>>

----------------------------------------------------------------------------
(* components/Sticker/Sticker.tsx: dragging and resizing one sticker *)

\* dragstart on a sticker: START_DRAG, then SELECT_STICKER of the sticker
stickerDragStart(id) ==
  /\ gesture = NoGesture
  /\ id \in DOMAIN state.stickers
  /\ gesture' = [kind |-> "drag", id |-> id]
  /\ Dispatched(<<[type |-> "START_DRAG"],
                  [type |-> "SELECT_STICKER", payload |-> [id |-> id]]>>)
  /\ UNCHANGED manager

\* dragend on the sticker, released at the position (x, y) of its segment:
\* END_DRAG, then MOVE_STICKER when the position changed
stickerDragEnd(x, y) ==
  /\ gesture.kind = "drag"
  /\ gesture.id \in DOMAIN state.stickers
  /\ gesture' = NoGesture
  /\ LET sticker == state.stickers[gesture.id] IN
     Dispatched(<<[type |-> "END_DRAG"]>> \o
                (IF x # sticker.x \/ y # sticker.y
                 THEN <<[type |-> "MOVE_STICKER",
                         payload |-> [id |-> sticker.id, x |-> x, y |-> y,
                                      timeSegmentId |-> sticker.timeSegmentId]]>>
                 ELSE <<>>))
  /\ UNCHANGED manager

Z_INDEX == [STICKER_BASE |-> 100, STICKER_SELECTED |-> 500, STICKER_DRAGGING |-> 1000]

\* onResizeStart: the sticker is brought to the front
handleResizeStart(id) ==
  /\ gesture = NoGesture
  /\ id \in DOMAIN state.stickers
  /\ gesture' = [kind |-> "resize", id |-> id]
  /\ Dispatched(<<[type |-> "SET_STICKER_ZINDEX",
                   payload |-> [id |-> id, zIndex |-> Z_INDEX.STICKER_DRAGGING]]>>)
  /\ UNCHANGED manager

\* onResize, every frame of the interaction
handleResize(width, height) ==
  /\ gesture.kind = "resize"
  /\ Dispatched(<<[type |-> "RESIZE_STICKER",
                   payload |-> [id |-> gesture.id, width |-> width, height |-> height]]>>)
  /\ UNCHANGED <<manager, gesture>>

\* onResizeStop
handleResizeStop(width, height) ==
  /\ gesture.kind = "resize"
  /\ gesture' = NoGesture
  /\ LET sticker == state.stickers[gesture.id]
         newZIndex == IF Has(sticker, "isSelected") /\ sticker.isSelected
                      THEN Z_INDEX.STICKER_SELECTED ELSE Z_INDEX.STICKER_BASE
     IN Dispatched(<<[type |-> "RESIZE_STICKER",
                      payload |-> [id |-> gesture.id, width |-> width, height |-> height]],
                     [type |-> "SET_STICKER_ZINDEX",
                      payload |-> [id |-> gesture.id, zIndex |-> newZIndex]]>>)
  /\ UNCHANGED manager

----------------------------------------------------------------------------
(* Sticker.tsx: rotating one sticker with the pointer *)

\* mousedown on the rotate handle: the move and end listeners are added
handleRotationStart(id) ==
  /\ gesture = NoGesture
  /\ id \in DOMAIN state.stickers
  /\ gesture' = [kind |-> "rotate", id |-> id]
  /\ UNCHANGED <<state, depsId, history, historyIndex, effectPending, mounted, thrown,
                 storage, timers, manager, trail>>

\* handleMove, every mousemove of the interaction
handleMove(newRotation) ==
  /\ gesture.kind = "rotate"
  /\ Dispatched(<<[type |-> "ROTATE_STICKER",
                   payload |-> [id |-> gesture.id, rotation |-> newRotation]]>>)
  /\ UNCHANGED <<manager, gesture>>

\* handleEnd: the listeners are removed, nothing is dispatched
handleEnd ==
  /\ gesture.kind = "rotate"
  /\ gesture' = NoGesture
  /\ UNCHANGED <<state, depsId, history, historyIndex, effectPending, mounted, thrown,
                 storage, timers, manager, trail>>

----------------------------------------------------------------------------
(* MoodboardCanvas: a palette sticker dragged over the board (DndContext) *)

\* event.over of a drag that ends outside every droppable
NoOver == [type |-> "null"]

\* onDragStart of the DndContext
handleDragStart(active) ==
  /\ gesture = NoGesture
  /\ gesture' = [kind |-> "dnd", active |-> active]
  /\ Dispatched(<<[type |-> "START_DRAG"]>>)
  /\ UNCHANGED manager

handleDragEnd_DropAnywhere(over, id) ==
  /\ gesture.kind = "dnd"
  /\ gesture' = NoGesture
  /\ id \notin DOMAIN state.stickers
  /\ Dispatched(<<[type |-> "END_DRAG"],
                  [type |-> "ADD_STICKER",
                   payload |-> Merge(gesture.active.sticker,
                                     [id |-> id,
                                      timeSegmentId |-> IF over = NoOver THEN ""
                                                        ELSE over.segmentId,
                                      x |-> 50, y |-> 50, zIndex |-> 1, rotation |-> 0])]>>)
  /\ UNCHANGED manager

\* onDragEnd of the DndContext; id is the value of `sticker-${Date.now()}`
handleDragEnd(over, id) ==
  /\ gesture.kind = "dnd"
  /\ gesture' = NoGesture
  /\ IF over # NoOver /\ gesture.active.type = "STICKER" /\ over.type = "SEGMENT"
     THEN /\ id \notin DOMAIN state.stickers
          /\ Dispatched(<<[type |-> "END_DRAG"],
                          [type |-> "ADD_STICKER",
                           payload |-> Merge(gesture.active.sticker,
                                             [id |-> id, timeSegmentId |-> over.segmentId,
                                              x |-> 50, y |-> 50, zIndex |-> 1,
                                              rotation |-> 0])]>>)
     ELSE Dispatched(<<[type |-> "END_DRAG"]>>)
  /\ UNCHANGED manager

----------------------------------------------------------------------------
(* MoodboardCanvas: the layer buttons *)

\* the largest zIndex on the board, 0 at least
maxZIndex(stickers) == SetMax({0} \cup {stickers[k].zIndex : k \in DOMAIN stickers})

\* the smallest zIndex on the board, 1 at most
minZIndex(stickers) ==
  CHOOSE m \in {1} \cup {stickers[k].zIndex : k \in DOMAIN stickers} :
    \A k \in DOMAIN stickers : m <= stickers[k].zIndex /\ m <= 1

bringToFront ==
  /\ Handled("bringToFront",
             IF state.selectedStickerId # "null"
             THEN <<[type |-> "UPDATE_STICKER_ZINDEX",
                     payload |-> [id |-> state.selectedStickerId,
                                  zIndex |-> maxZIndex(state.stickers) + 1]]>>
             ELSE <<>>)
  /\ UNCHANGED <<manager, gesture>>

sendToBack ==
  /\ Handled("sendToBack",
             IF state.selectedStickerId # "null"
             THEN <<[type |-> "UPDATE_STICKER_ZINDEX",
                     payload |-> [id |-> state.selectedStickerId,
                                  zIndex |-> Max(minZIndex(state.stickers) - 1, 0)]]>>
             ELSE <<>>)
  /\ UNCHANGED <<manager, gesture>>

----------------------------------------------------------------------------
(* The actions dispatched to the reducer *)

AddSegment(p) ==
  /\ Len(state.segmentOrder) < MaxOrder
  /\ Dispatch([type |-> "ADD_SEGMENT", payload |-> p])

RemoveSegment(id) == Dispatch([type |-> "REMOVE_SEGMENT", payload |-> [id |-> id]])

AddSticker(p) == Dispatch([type |-> "ADD_STICKER", payload |-> p])

RemoveSticker(id) == Dispatch([type |-> "REMOVE_STICKER", payload |-> [id |-> id]])

UpdateSticker(p) == Dispatch([type |-> "UPDATE_STICKER", payload |-> p])

MoveSticker(p) == Dispatch([type |-> "MOVE_STICKER", payload |-> p])

SelectStickers(ids) == Dispatch([type |-> "SELECT_STICKERS", payload |-> [stickerIds |-> ids]])

CreateStickerGroup(g) == Dispatch([type |-> "CREATE_STICKER_GROUP", payload |-> g])

RenameSegment(p) == Dispatch([type |-> "RENAME_SEGMENT", payload |-> p])

ResizeSegment(p) == Dispatch([type |-> "RESIZE_SEGMENT", payload |-> p])

UpdateSegment(p) == Dispatch([type |-> "UPDATE_SEGMENT", payload |-> p])

SelectSticker(id) ==
  /\ state.isMultiSelectMode => Len(state.selectedStickerIds) < MaxSel
  /\ Dispatch([type |-> "SELECT_STICKER", payload |-> [id |-> id]])

DeselectSticker(id) == Dispatch([type |-> "DESELECT_STICKER", payload |-> [id |-> id]])

SetMultiSelectMode(e) ==
  Dispatch([type |-> "SET_MULTI_SELECT_MODE", payload |-> [enabled |-> e]])

ToggleMultiSelect(e) ==
  Dispatch([type |-> "TOGGLE_MULTI_SELECT", payload |-> [enabled |-> e]])

DeleteStickerGroup(id) ==
  Dispatch([type |-> "DELETE_STICKER_GROUP", payload |-> [id |-> id]])

AddToGroup(p) ==
  /\ p.groupId \in DOMAIN state.stickerGroups =>
       Len(state.stickerGroups[p.groupId].stickerIds) < MaxGroup
  /\ Dispatch([type |-> "ADD_TO_GROUP", payload |-> p])

RemoveFromGroup(p) == Dispatch([type |-> "REMOVE_FROM_GROUP", payload |-> p])

----------------------------------------------------------------------------
(* Inputs *)

SegmentPayloads == {[id |-> i, title |-> t] : i \in SegIds, t \in {"", "Trip", "Rest"}}

StickerPayloads ==
  {[id |-> i, type |-> "text", content |-> "Hi", timeSegmentId |-> g, x |-> 0, y |-> 0] :
     i \in StickerIds, g \in SegIds}

MovePayloads ==
  {[id |-> i, x |-> c, y |-> c, timeSegmentId |-> g] : i \in StickerIds, c \in Coords, g \in SegIds}

UpdatePayloads == {[id |-> i, timeSegmentId |-> g] : i \in StickerIds, g \in SegIds}

\* the variant fields a caller may supply for a sticker of type t
VariantFields(t) ==
  CASE t = "text" -> [content |-> "Hi"]
    [] t = "image" -> [content |-> "a.png", originalSize |-> [width |-> 1, height |-> 1]]
    [] t = "icon" -> [icon |-> "moon"]
    [] t = "link" -> [content |-> "http://x", title |-> "T"]
    [] t = "map" -> [location |-> [lat |-> 1, lng |-> 1, zoom |-> 2]]
    [] t = "custom" -> [template |-> "tpl", data |-> [k |-> 1]]
    [] OTHER -> EmptyObj

\* ADD_STICKER payloads of every type, and of a type that is no StickerType,
\* without the variant fields, with them, and with an empty icon
TypedStickerPayloads ==
  LET bare(i, t) == [id |-> i, type |-> t, timeSegmentId |-> "day-1"] IN
  {bare(i, t) : i \in StickerIds, t \in StickerTypes \cup {"video"}}
    \cup {Merge(bare(i, t), VariantFields(t)) : i \in StickerIds, t \in StickerTypes}
    \cup {Merge(bare(i, "icon"), [icon |-> ""]) : i \in StickerIds}

\* UPDATE_STICKER payloads: {id, ...partial}
PartialPayloads ==
  {[id |-> i, content |-> "New"] : i \in StickerIds}
    \cup {[id |-> i, title |-> "T2"] : i \in StickerIds}

RenamePayloads == {[id |-> i, title |-> "Renamed"] : i \in SegIds}

ResizePayloads == {[id |-> i, width |-> 400, height |-> 200] : i \in SegIds}

\* UPDATE_SEGMENT payloads: {id, ...updates}
SegmentUpdatePayloads ==
  {[id |-> i, color |-> "red"] : i \in SegIds}
    \cup {[id |-> i, title |-> "Edited", order |-> 1] : i \in SegIds}

\* sizes a resize frame can report
Sizes == {1, 2}

\* angles a rotation frame can compute: (rotationDegree + rotation) % 360
Angles == {0, 90}

\* what the palette attaches to a dragged sticker
Actives ==
  {[type |-> "STICKER",
    sticker |-> [type |-> "text", content |-> "Text Note", icon |-> "note",
                 width |-> 150, height |-> 100]],
   [type |-> "STICKER",
    sticker |-> [type |-> "icon", icon |-> "heart", width |-> 150, height |-> 100]]}

\* where a drag can end: outside every droppable, or over a segment of the board
Overs(s) ==
  {NoOver} \cup {[type |-> "SEGMENT", segmentId |-> i] : i \in DOMAIN s.segments}

\* payloads of the four actions that edit one sticker's geometry
EditActions ==
  {[type |-> "MOVE_STICKER", payload |-> p] : p \in MovePayloads}
  \cup {[type |-> "RESIZE_STICKER", payload |-> [id |-> i, width |-> w, height |-> w]] :
          i \in StickerIds, w \in Sizes}
  \cup {[type |-> "ROTATE_STICKER", payload |-> [id |-> i, rotation |-> r]] :
          i \in StickerIds, r \in Angles}
  \cup {[type |-> "SET_STICKER_ZINDEX",
          payload |-> [id |-> i, zIndex |-> Z_INDEX.STICKER_DRAGGING]] : i \in StickerIds}

\* a board saved by an earlier session
SavedBoard ==
  ADD_STICKER(initialState,
              [id |-> "s1", type |-> "text", content |-> "Saved", timeSegmentId |-> "day-1"])

\* what the page can find under 'moodboard-state': nothing, the state as the
\* canvas stores it, or a StoredState of the current or of another version
StoredItems ==
  {NoItem, Stringify(SavedBoard),
   Stringify(StoredState(STATE_VERSION, SavedBoard)),
   Stringify(StoredState(STATE_VERSION + 1, SavedBoard))}

\* where a pointer event can happen on the canvas
Points == {[x |-> a, y |-> b] : a, b \in BoxCoords}

\* stickers with a position and a size: s1 covers [1,2]x[1,2], s2 [0,1]x[0,1]
PlacedStickerPayloads ==
  {[id |-> "s1", type |-> "text", content |-> "Hi", timeSegmentId |-> "day-1",
    x |-> 1, y |-> 1, width |-> 1, height |-> 1],
   [id |-> "s2", type |-> "text", content |-> "Hi", timeSegmentId |-> "day-1",
    x |-> 0, y |-> 0, width |-> 1, height |-> 1]}

\* the ids a pointer event can select
SelectIds == StickerIds \cup {"s3"}

\* ADD_TO_GROUP and REMOVE_FROM_GROUP payloads
MemberPayloads == {[groupId |-> g, stickerId |-> i] : g \in GroupIds, i \in StickerIds}

SelectionPayloads == {<<>>, <<"s1", "s2", "s3">>, <<"s3", "s2">>}

GroupPayloads ==
  {[id |-> g, name |-> "Group", stickerIds |-> ids] :
     g \in GroupIds, ids \in {<<"s1", "s2", "s3">>, <<"s3", "s1">>}}

----------------------------------------------------------------------------
(* The reducer alone: sequences of ADD_SEGMENT and REMOVE_SEGMENT *)

InitReducer ==
  /\ state = initialState
  /\ depsId = 0
  /\ history = <<>>
  /\ historyIndex = -1
  /\ effectPending = FALSE
  /\ mounted = FALSE
  /\ thrown = ""
  /\ storage = NoItem
  /\ timers = {}
  /\ manager = ManagerIdle
  /\ gesture = NoGesture
  /\ trail = <<>>

NextSegments ==
  \/ \E p \in SegmentPayloads : AddSegment(p)
  \/ \E id \in SegIds : RemoveSegment(id)

SpecSegments == InitReducer /\ [][NextSegments]_vars

----------------------------------------------------------------------------
(* The reducer alone: segments, stickers, groups and selection *)

NextReducer ==
  \/ \E i \in SegIds : AddSegment([id |-> i, title |-> "Trip"])
  \/ \E id \in SegIds : RemoveSegment(id)
  \/ \E p \in StickerPayloads : AddSticker(p)
  \/ \E id \in StickerIds : RemoveSticker(id)
  \/ \E p \in UpdatePayloads : UpdateSticker(p)
  \/ \E p \in MovePayloads : MoveSticker(p)
  \/ \E ids \in SelectionPayloads : SelectStickers(ids)
  \/ \E g \in GroupPayloads : CreateStickerGroup(g)

SpecReducer == InitReducer /\ [][NextReducer]_vars

----------------------------------------------------------------------------
(* The reducer alone: segments added, removed, renamed, resized and updated *)

NextSegmentEdits ==
  \/ \E i \in SegIds : AddSegment([id |-> i, title |-> "Trip"])
  \/ \E id \in SegIds : RemoveSegment(id)
  \/ \E p \in RenamePayloads : RenameSegment(p)
  \/ \E p \in ResizePayloads : ResizeSegment(p)
  \/ \E p \in SegmentUpdatePayloads : UpdateSegment(p)

SpecSegmentEdits == InitReducer /\ [][NextSegmentEdits]_vars

----------------------------------------------------------------------------
(* The reducer alone: stickers of every type added, updated and removed *)

NextStickers ==
  \/ \E p \in TypedStickerPayloads : AddSticker(p)
  \/ \E p \in PartialPayloads : UpdateSticker(p)
  \/ \E id \in StickerIds : RemoveSticker(id)

SpecStickers == InitReducer /\ [][NextStickers]_vars

----------------------------------------------------------------------------
(* The reducer alone: selection and the multi-select mode *)

NextSelection ==
  \/ \E id \in SelectIds : SelectSticker(id)
  \/ \E id \in SelectIds : DeselectSticker(id)
  \/ \E e \in BOOLEAN : SetMultiSelectMode(e)
  \/ \E e \in BOOLEAN : ToggleMultiSelect(e)

SpecSelection == InitReducer /\ [][NextSelection]_vars

----------------------------------------------------------------------------
(* StickerGroupManager on the provider: stickers placed on the canvas, the  *)
(* multi-select button and the pointer drawing a selection box             *)

NextSelectionBox ==
  \/ /\ ~manager.pointerDown
     /\ ~manager.effectPending
     /\ \E p \in PlacedStickerPayloads : AddSticker(p)
  \/ /\ ~manager.pointerDown
     /\ ~manager.effectPending
     /\ ToggleMultiSelect(~state.isMultiSelectMode)
  \/ \E pt \in Points : handleMouseDown(pt)
  \/ \E pt \in Points : handleMouseMove(pt)
  \/ handleMouseUp
  \/ ManagerEffect

SpecSelectionBox == InitReducer /\ [][NextSelectionBox]_vars

----------------------------------------------------------------------------
(* The page loaded over what storage holds, edited, saved after the        *)
(* debounce delay and loaded again                                         *)

\* a canvas setting (background, width, height, dark mode) changes: the save
\* effect runs again for the same state
SettingsChange ==
  /\ mounted
  /\ timers' = ArmSave(timers, state)
  /\ UNCHANGED <<state, depsId, history, historyIndex, effectPending, mounted, thrown,
                 storage, manager, gesture, trail>>

\* the canvas unmounts: the cleanup of the save effect clears the timeout
Unmount ==
  /\ mounted
  /\ mounted' = FALSE
  /\ timers' = {}
  /\ effectPending' = FALSE
  /\ UNCHANGED <<state, depsId, history, historyIndex, thrown, storage, manager, gesture,
                 trail>>

InitPersist ==
  /\ state = initialState
  /\ depsId = 0
  /\ history = <<>>
  /\ historyIndex = -1
  /\ effectPending = FALSE
  /\ mounted = FALSE
  /\ thrown = ""
  /\ storage \in StoredItems
  /\ timers = {}
  /\ manager = ManagerIdle
  /\ gesture = NoGesture
  /\ trail = <<>>

NextPersist ==
  \/ PageLoad
  \/ /\ mounted
     /\ isValidMoodboardState(state)
     /\ \E i \in StickerIds :
          AddSticker([id |-> i, type |-> "text", content |-> "Hi", timeSegmentId |-> "day-1"])
  \/ /\ mounted
     /\ isValidMoodboardState(state)
     /\ SelectSticker("s1")
  \/ TimerFires
  \/ HistoryEffect

SpecPersist == InitPersist /\ [][NextPersist]_vars

NextPersistLive ==
  \/ NextPersist
  \/ SettingsChange
  \/ Unmount

\* a pending timeout does fire
SpecPersistLive == InitPersist /\ [][NextPersistLive]_vars /\ WF_vars(TimerFires)

----------------------------------------------------------------------------
(* The reducer alone: stickers placed, selected, moved, resized, rotated   *)
(* and layered, with ids that are on the board and ids that are not        *)

NextStickerEdits ==
  \/ \E p \in PlacedStickerPayloads : AddSticker(p)
  \/ SelectSticker("s1")
  \/ \E a \in EditActions : a.type = "MOVE_STICKER" /\ Dispatch(a)
  \/ \E a \in EditActions : a.type = "RESIZE_STICKER" /\ Dispatch(a)
  \/ \E a \in EditActions : a.type = "ROTATE_STICKER" /\ Dispatch(a)
  \/ \E a \in EditActions : a.type = "SET_STICKER_ZINDEX" /\ Dispatch(a)

SpecStickerEdits == InitReducer /\ [][NextStickerEdits]_vars

----------------------------------------------------------------------------
(* Stickers resized and rotated with the pointer: Start, frames, Stop *)

NextInteractions ==
  \/ gesture = NoGesture /\ \E p \in PlacedStickerPayloads : AddSticker(p)
  \/ \E id \in StickerIds : handleResizeStart(id)
  \/ \E w \in Sizes, h \in Sizes : handleResize(w, h)
  \/ \E w \in Sizes, h \in Sizes : handleResizeStop(w, h)
  \/ \E id \in StickerIds : handleRotationStart(id)
  \/ \E r \in Angles : handleMove(r)
  \/ handleEnd

SpecInteractions == InitReducer /\ [][NextInteractions]_vars

----------------------------------------------------------------------------
(* Stickers dragged on the board, with selection events arriving at any    *)
(* time                                                                    *)

NextStickerDrag ==
  \/ gesture = NoGesture /\ \E p \in PlacedStickerPayloads : AddSticker(p)
  \/ \E id \in SelectIds : SelectSticker(id)
  \/ \E ids \in SelectionPayloads : SelectStickers(ids)
  \/ \E id \in StickerIds : stickerDragStart(id)
  \/ \E x \in BoxCoords, y \in BoxCoords : stickerDragEnd(x, y)

SpecStickerDrag == InitReducer /\ [][NextStickerDrag]_vars

----------------------------------------------------------------------------
(* The reducer alone: sticker groups and the removals that touch them *)

NextGroups ==
  \/ \E i \in StickerIds :
       AddSticker([id |-> i, type |-> "text", content |-> "Hi", timeSegmentId |-> "day-1",
                   x |-> 0, y |-> 0])
  \/ \E ids \in {<<"s1">>, <<"s1", "s2">>} :
       CreateStickerGroup([id |-> "g1", name |-> "Group", stickerIds |-> ids])
  \/ \E p \in MemberPayloads : AddToGroup(p)
  \/ \E p \in MemberPayloads : RemoveFromGroup(p)
  \/ \E g \in GroupIds : DeleteStickerGroup(g)
  \/ \E id \in StickerIds : RemoveSticker(id)
  \/ RemoveSegment("day-1")

SpecGroups == InitReducer /\ [][NextGroups]_vars

----------------------------------------------------------------------------
(* The canvas mounted on the provider: dispatches, undo, redo and the      *)
(* history effect                                                          *)

Init ==
  /\ state = initialState
  /\ depsId = 0
  /\ history = <<>>
  /\ historyIndex = -1
  /\ effectPending = TRUE
  /\ mounted = TRUE
  /\ thrown = ""
  /\ storage = NoItem
  /\ timers = ArmSave({}, initialState)
  /\ manager = ManagerIdle
  /\ gesture = NoGesture
  /\ trail = <<>>

Next ==
  \/ \E i \in StickerIds :
       AddSticker([id |-> i, type |-> "text", content |-> "Hi", timeSegmentId |-> "day-1",
                   x |-> 0, y |-> 0])
  \/ \E id \in StickerIds : RemoveSticker(id)
  \/ \E i \in StickerIds, g \in SegIds :
       MoveSticker([id |-> i, x |-> 1, y |-> 1, timeSegmentId |-> g])
  \/ AddSegment([id |-> "day-2", title |-> "Trip"])
  \/ CreateStickerGroup([id |-> "g1", name |-> "Group", stickerIds |-> <<"s1">>])
  \/ handleUndo
  \/ handleRedo
  \/ HistoryEffect

Spec == Init /\ [][Next]_vars

----------------------------------------------------------------------------
(* The canvas mounted: segments added, palette stickers dragged and        *)
(* dropped on a segment or released outside every segment                  *)

NextCanvasDrag ==
  \/ /\ gesture = NoGesture
     /\ \E p \in {q \in SegmentPayloads : q.title = "Trip"} : AddSegment(p)
  \/ \E a \in Actives : handleDragStart(a)
  \/ \E over \in Overs(state), id \in StickerIds : handleDragEnd(over, id)
  \/ HistoryEffect

SpecCanvasDrag == Init /\ [][NextCanvasDrag]_vars

----------------------------------------------------------------------------
(* The canvas mounted: stickers dropped on the board at layer 1, selected, *)
(* raised while resized, and the layer buttons pressed                     *)

NextLayers ==
  \/ \E p \in PlacedStickerPayloads : AddSticker(Merge(p, [zIndex |-> 1]))
  \/ \E id \in StickerIds : id \in DOMAIN state.stickers /\ SelectSticker(id)
  \/ \E id \in StickerIds :
       Dispatch([type |-> "SET_STICKER_ZINDEX",
                 payload |-> [id |-> id, zIndex |-> Z_INDEX.STICKER_BASE]])
  \/ bringToFront
  \/ sendToBack
  \/ HistoryEffect

SpecLayers == Init /\ [][NextLayers]_vars

----------------------------------------------------------------------------
(* Properties *)

\* C1: after any sequence of ADD_SEGMENT and REMOVE_SEGMENT, segmentOrder
\* contains every key of segments exactly once and nothing else.
C1_SegmentOrderIsPermutation ==
  /\ Range(state.segmentOrder) = DOMAIN state.segments
  /\ Len(state.segmentOrder) = Cardinality(DOMAIN state.segments)

\* C2: every sticker's timeSegmentId is the id of a segment present in segments.
C2_StickerSegmentExists ==
  \A k \in DOMAIN state.stickers :
    state.stickers[k].timeSegmentId \in DOMAIN state.segments

\* C3: REMOVE_SEGMENT{id} removes the segment, its entry in segmentOrder and
\* the stickers it owns, and leaves every other segment, the order of the
\* remaining segmentOrder entries and every other sticker unchanged.
C3_RemoveSegmentCascade ==
  [][\A id \in SegIds :
       RemoveSegment(id) =>
         /\ id \notin DOMAIN state'.segments
         /\ id \notin Range(state'.segmentOrder)
         /\ \A k \in DOMAIN state'.stickers : state'.stickers[k].timeSegmentId # id
         /\ DOMAIN state'.segments = (DOMAIN state.segments) \ {id}
         /\ \A k \in DOMAIN state'.segments : state'.segments[k] = state.segments[k]
         /\ state'.segmentOrder = SelectSeq(state.segmentOrder, LAMBDA x : x # id)
         /\ DOMAIN state'.stickers =
              {k \in DOMAIN state.stickers : state.stickers[k].timeSegmentId # id}
         /\ \A k \in DOMAIN state'.stickers : state'.stickers[k] = state.stickers[k]
    ]_vars

\* C3 witness: day-1 was removed together with its stickers while a sticker
\* owned by day-2 survived.
C3_Witness ==
  /\ "day-1" \notin DOMAIN state.segments
  /\ "day-2" \in DOMAIN state.segments
  /\ state.segmentOrder = <<"day-2">>
  /\ DOMAIN state.stickers = {"s2"}
  /\ state.stickers["s2"].timeSegmentId = "day-2"
  /\ "s1" \in Range(state.selectedStickerIds)

\* C4: after REMOVE_SEGMENT{id}, no group's stickerIds contains the id of a
\* sticker that the cascade deleted.
C4_RemoveSegmentCleansGroups ==
  [][\A id \in SegIds :
       RemoveSegment(id) =>
         \A g \in DOMAIN state'.stickerGroups :
           \A k \in Range(state'.stickerGroups[g].stickerIds) :
             ~(k \in DOMAIN state.stickers /\ state.stickers[k].timeSegmentId = id)
    ]_vars

\* C5: after REMOVE_STICKER{id}, id is no key of stickers, occurs in no
\* group's stickerIds and not in selectedStickerIds; the other stickers, the
\* other members of every group and the other selected ids are unchanged and
\* keep their order.
C5_RemoveStickerCleansUp ==
  [][\A id \in StickerIds :
       RemoveSticker(id) =>
         /\ id \notin DOMAIN state'.stickers
         /\ \A g \in DOMAIN state'.stickerGroups :
              id \notin Range(state'.stickerGroups[g].stickerIds)
         /\ id \notin Range(state'.selectedStickerIds)
         /\ DOMAIN state'.stickers = (DOMAIN state.stickers) \ {id}
         /\ \A k \in DOMAIN state'.stickers : state'.stickers[k] = state.stickers[k]
         /\ DOMAIN state'.stickerGroups = DOMAIN state.stickerGroups
         /\ \A g \in DOMAIN state.stickerGroups :
              /\ state'.stickerGroups[g].stickerIds =
                   SelectSeq(state.stickerGroups[g].stickerIds, LAMBDA x : x # id)
              /\ state'.stickerGroups[g].id = state.stickerGroups[g].id
              /\ state'.stickerGroups[g].name = state.stickerGroups[g].name
         /\ state'.selectedStickerIds =
              SelectSeq(state.selectedStickerIds, LAMBDA x : x # id)
    ]_vars

\* C5 witness: s1 was removed while it was a group member and selected; the
\* lists <<s2, s3>> are only produced by filtering s1 out of <<s1, s2, s3>>.
C5_Witness ==
  /\ "s1" \notin DOMAIN state.stickers
  /\ "s2" \in DOMAIN state.stickers
  /\ "g1" \in DOMAIN state.stickerGroups
  /\ state.stickerGroups["g1"].stickerIds = <<"s2", "s3">>
  /\ state.selectedStickerIds = <<"s2", "s3">>

\* C6: MOVE_STICKER{id,x,y,timeSegmentId} on an existing sticker is a single
\* transition that sets x, y and timeSegmentId together and nothing else on
\* the sticker, and a snapshot recorded in history is the complete live
\* state, so no live or recorded state has only one of the two changed.
C6_MoveStickerAtomic ==
  [][/\ \A p \in MovePayloads :
          (MoveSticker(p) /\ p.id \in DOMAIN state.stickers) =>
            /\ p.id \in DOMAIN state'.stickers
            /\ state'.stickers[p.id].x = p.x
            /\ state'.stickers[p.id].y = p.y
            /\ state'.stickers[p.id].timeSegmentId = p.timeSegmentId
            /\ state'.stickers[p.id].id = state.stickers[p.id].id
            /\ state'.stickers[p.id].content = state.stickers[p.id].content
     /\ HistoryEffect => history'[Len(history')].state = state'
    ]_vars

\* C6 witness: s1 was added at (0,0) in day-1 and recorded, then moved to
\* (1,1) in day-2, and the move was recorded as one snapshot.
C6_Witness ==
  /\ ~effectPending
  /\ Len(history) >= 2
  /\ historyIndex = Len(history) - 1
  /\ "s1" \in DOMAIN state.stickers
  /\ state.stickers["s1"].x = 1
  /\ state.stickers["s1"].y = 1
  /\ state.stickers["s1"].timeSegmentId = "day-2"
  /\ history[Len(history)].state = state
  /\ "s1" \in DOMAIN history[Len(history) - 1].state.stickers
  /\ history[Len(history) - 1].state.stickers["s1"].x = 0
  /\ history[Len(history) - 1].state.stickers["s1"].timeSegmentId = "day-1"

\* C7: from a recorded state S0, after one ADD_STICKER giving S1, Undo makes
\* the live state S0 and a following Redo makes the live state S1 again.
C7_UndoRedoRoundTrip ==
  [][(/\ handleRedo
      /\ Len(trail) = 2
      /\ trail[1].op = "ADD_STICKER"
      /\ trail[2].op = "Undo"
      /\ trail[1].historyIndex >= 0
      /\ trail[1].history[trail[1].historyIndex + 1].state = trail[1].state
      /\ trail[2].state # trail[1].state)
       => /\ state = trail[1].state
          /\ state' = trail[2].state
    ]_vars

\* C8: with history [s0,s1,s2] at index 2, an Undo followed by one new
\* mutating action producing s2' leaves history = [s0,s1,s2'] with length 3
\* and index 2.
C8_TruncateAfterUndo ==
  [][(/\ HistoryEffect
      /\ Len(trail) = 2
      /\ trail[1].op = "Undo"
      /\ trail[2].op \notin {"Undo", "Redo"}
      /\ Len(trail[1].history) = 3
      /\ trail[1].historyIndex = 2)
       => /\ Len(history') = 3
          /\ historyIndex' = 2
          /\ history'[1] = trail[1].history[1]
          /\ history'[2] = trail[1].history[2]
          /\ history'[3].state = state'
    ]_vars

\* the externally observable part of the reducer state
Observable(s) ==
  <<s.stickers, s.segments, s.segmentOrder, s.stickerGroups, s.templates>>

\* C9: every dispatch that is not an undo/redo load and that changes
\* stickers, segments, segmentOrder, sticker groups or templates appends
\* exactly one snapshot equal to the new state to history and sets
\* historyIndex to history.length - 1.
C9_EveryChangeRecorded ==
  (/\ ~effectPending
   /\ Len(trail) >= 1
   /\ trail[Len(trail)].op \notin {"Undo", "Redo"}
   /\ Observable(trail[Len(trail)].state) # Observable(state))
    => LET e == trail[Len(trail)] IN
       /\ Len(history) = e.historyIndex + 2
       /\ SubSeq(history, 1, e.historyIndex + 1) = SubSeq(e.history, 1, e.historyIndex + 1)
       /\ history[Len(history)].state = state
       /\ historyIndex = Len(history) - 1

\* C10: Undo with historyIndex > 0 decrements historyIndex by exactly one and
\* makes the live state equal to history[new index]; Undo with
\* historyIndex <= 0 changes neither the index, nor the history, nor the
\* live state.
C10_UndoStepsBack ==
  (/\ ~effectPending
   /\ Len(trail) >= 1
   /\ trail[Len(trail)].op = "Undo")
    => LET e == trail[Len(trail)] IN
       IF e.historyIndex > 0
       THEN /\ historyIndex = e.historyIndex - 1
            /\ state = history[historyIndex + 1].state
       ELSE /\ historyIndex = e.historyIndex
            /\ history = e.history
            /\ state = e.state

\* C11: Redo with historyIndex < history.length - 1 increments historyIndex by
\* exactly one and makes the live state equal to history[new index]; Redo
\* with historyIndex at the tail changes neither the index, nor the history,
\* nor the live state.
C11_RedoStepsForward ==
  (/\ ~effectPending
   /\ Len(trail) >= 1
   /\ trail[Len(trail)].op = "Redo")
    => LET e == trail[Len(trail)] IN
       IF e.historyIndex < Len(e.history) - 1
       THEN /\ historyIndex = e.historyIndex + 1
            /\ state = history[historyIndex + 1].state
       ELSE /\ historyIndex = e.historyIndex
            /\ history = e.history
            /\ state = e.state

\* C11 witness: a Redo below the tail has run and settled, and it replaced a
\* live state that differed from the snapshot it loaded.
C11_Witness ==
  /\ ~effectPending
  /\ Len(trail) >= 1
  /\ trail[Len(trail)].op = "Redo"
  /\ trail[Len(trail)].historyIndex < Len(trail[Len(trail)].history) - 1
  /\ trail[Len(trail)].state # state
  /\ historyIndex = trail[Len(trail)].historyIndex + 1
  /\ state = history[historyIndex + 1].state

\* C12: once all effects triggered by an Undo or Redo have run, the history
\* list has the same length and the same entries as before it.
C12_LoadStateNotRecorded ==
  (/\ ~effectPending
   /\ Len(trail) >= 1
   /\ trail[Len(trail)].op \in {"Undo", "Redo"})
    => history = trail[Len(trail)].history

\* C13: ADD_STICKER stores the payload under its own id with its type
\* unchanged and every supplied field kept, and fills the absent variant
\* fields: an icon sticker without icon (absent or empty) gets the non-empty
\* star glyph, an image sticker without originalSize gets {0,0}, a map
\* sticker without location gets {0,0,1}, a link sticker without title gets
\* '', a custom sticker without template/data gets ''/{}.
C13_AddStickerDefaults ==
  [][\A p \in TypedStickerPayloads :
       (AddSticker(p) /\ p.type \in StickerTypes) =>
         /\ DOMAIN state'.stickers = (DOMAIN state.stickers) \cup {p.id}
         /\ LET n == state'.stickers[p.id]
                Is(k, v) == Has(n, k) /\ n[k] = v
            IN
            /\ Is("id", p.id)
            /\ Is("type", p.type)
            /\ \A k \in (DOMAIN p) \ {"icon"} : Is(k, p[k])
            /\ (p.type = "icon" /\ Has(p, "icon") /\ p.icon # "") => Is("icon", p.icon)
            /\ (p.type = "icon" /\ (~Has(p, "icon") \/ p.icon = "")) =>
                 (Is("icon", "star") /\ n.icon # "")
            /\ (p.type = "image" /\ ~Has(p, "originalSize")) =>
                 Is("originalSize", [width |-> 0, height |-> 0])
            /\ (p.type = "map" /\ ~Has(p, "location")) =>
                 Is("location", [lat |-> 0, lng |-> 0, zoom |-> 1])
            /\ (p.type = "link" /\ ~Has(p, "title")) => Is("title", "")
            /\ (p.type = "custom" /\ ~Has(p, "template")) => Is("template", "")
            /\ (p.type = "custom" /\ ~Has(p, "data")) => Is("data", EmptyObj)
    ]_vars

\* C13 witness: s1 was added as an icon sticker without icon and got the
\* star, s2 was added as a map sticker with its location and kept it.
C13_Witness ==
  /\ DOMAIN state.stickers = {"s1", "s2"}
  /\ state.stickers["s1"].type = "icon"
  /\ state.stickers["s1"].icon = "star"
  /\ state.stickers["s2"].type = "map"
  /\ state.stickers["s2"].location = [lat |-> 1, lng |-> 1, zoom |-> 2]

\* C14: ADD_STICKER whose payload type is none of the six sticker types
\* fails with an error and leaves the state exactly as it was.
C14_InvalidTypeRejected ==
  [][\A p \in TypedStickerPayloads :
       (AddSticker(p) /\ p.type \notin StickerTypes) =>
         /\ thrown' = "Invalid sticker type"
         /\ state' = state
    ]_vars

\* C14 witness: the last dispatch threw while no icon sticker existed, so it
\* was an ADD_STICKER of an unknown type, and the sticker added before it is
\* still the only one.
C14_Witness ==
  /\ thrown = "Invalid sticker type"
  /\ DOMAIN state.stickers = {"s1"}
  /\ state.stickers["s1"].type = "text"

\* C15: ADD_SEGMENT with an id that is already a key of segments is a no-op:
\* the existing segment is not overwritten, id is not appended to
\* segmentOrder a second time, and every other field is unchanged.
C15_DuplicateAddSegmentNoOp ==
  [][\A p \in SegmentPayloads :
       (AddSegment(p) /\ p.id \in DOMAIN state.segments) => state' = state
    ]_vars

\* C16: RENAME_SEGMENT, RESIZE_SEGMENT and UPDATE_SEGMENT with an id that is
\* no key of segments return the state unchanged; with a present id they
\* change only the named fields of that one segment and leave segmentOrder
\* and all other segments unchanged.
C16_SegmentEditsFramed ==
  [][/\ \A p \in RenamePayloads :
          RenameSegment(p) =>
            IF p.id \in DOMAIN state.segments
            THEN state' = [state EXCEPT !.segments =
                    Put(state.segments, p.id,
                        Merge(state.segments[p.id], [title |-> p.title]))]
            ELSE state' = state
     /\ \A p \in ResizePayloads :
          ResizeSegment(p) =>
            IF p.id \in DOMAIN state.segments
            THEN state' = [state EXCEPT !.segments =
                    Put(state.segments, p.id,
                        Merge(state.segments[p.id],
                              [width |-> p.width, height |-> p.height]))]
            ELSE state' = state
     /\ \A p \in SegmentUpdatePayloads :
          UpdateSegment(p) =>
            IF p.id \in DOMAIN state.segments
            THEN state' = [state EXCEPT !.segments =
                    Put(state.segments, p.id,
                        Merge(state.segments[p.id], Delete(p, "id")))]
            ELSE state' = state
    ]_vars

\* C17: UPDATE_STICKER{id,...partial} on an existing sticker of any of the
\* six types returns a state in which that sticker is the old sticker
\* overridden by the fields of the partial with its type unchanged, and
\* nothing else changes; on an absent id the state is unchanged.
C17_UpdateStickerMerges ==
  [][\A p \in PartialPayloads :
       UpdateSticker(p) =>
         IF p.id \in DOMAIN state.stickers
         THEN state' = [state EXCEPT !.stickers =
                 Put(state.stickers, p.id,
                     Merge(Merge(state.stickers[p.id], Delete(p, "id")),
                           [type |-> state.stickers[p.id].type]))]
         ELSE state' = state
    ]_vars

\* C18: SELECT_STICKER{id} makes selectedStickerIds exactly [id] when
\* isMultiSelectMode is false, and the old list with id appended at the end
\* when it is true; DESELECT_STICKER{id} removes id and keeps the other
\* selected ids in order.
C18_SelectAndDeselect ==
  [][\A id \in SelectIds :
       /\ SelectSticker(id) =>
            state' = [state EXCEPT !.selectedStickerIds =
                        IF state.isMultiSelectMode
                        THEN state.selectedStickerIds \o <<id>>
                        ELSE <<id>>]
       /\ DeselectSticker(id) =>
            state' = [state EXCEPT !.selectedStickerIds =
                        SelectSeq(state.selectedStickerIds, LAMBDA x : x # id)]
    ]_vars

\* C18 witness: in multi-select mode s2, s3 and s1 were selected one after
\* the other and the list holds them in that order.
C18_Witness ==
  /\ state.isMultiSelectMode
  /\ state.selectedStickerIds = <<"s2", "s3", "s1">>

\* C19: SET_MULTI_SELECT_MODE{enabled} and TOGGLE_MULTI_SELECT{enabled} with
\* enabled = false set isMultiSelectMode to false and empty
\* selectedStickerIds; with enabled = true they set isMultiSelectMode to true
\* and leave selectedStickerIds unchanged.
C19_ModeOffClearsSelection ==
  [][\A e \in BOOLEAN :
       (SetMultiSelectMode(e) \/ ToggleMultiSelect(e)) =>
         /\ state'.isMultiSelectMode = e
         /\ state'.selectedStickerIds = IF e THEN state.selectedStickerIds ELSE <<>>
    ]_vars

\* C20: a sticker s has groupId = g exactly when s.id occurs in
\* stickerGroups[g].stickerIds.
C20_GroupBackReferences ==
  \A k \in DOMAIN state.stickers : \A g \in GroupIds :
    (Has(state.stickers[k], "groupId") /\ state.stickers[k].groupId = g)
      <=> (g \in DOMAIN state.stickerGroups
             /\ k \in Range(state.stickerGroups[g].stickerIds))

\* C21: on pointer-up of a selection box drawn from the point where the
\* button went down to the point where it is released, the stickers passed
\* to SELECT_STICKERS are exactly those that strictly overlap the box
\* normalised by min/max.
C21_SelectionBoxHits ==
  [][(/\ manager.pointerDown
      /\ ~manager'.pointerDown
      /\ state.isMultiSelectMode)
       => LET box == selectionRect([startX |-> manager.pointerFrom.x,
                                    startY |-> manager.pointerFrom.y,
                                    endX |-> manager.pointerAt.x,
                                    endY |-> manager.pointerAt.y])
              hits == {k \in DOMAIN state.stickers :
                         Intersects(stickerRect(state.stickers[k]), box)}
          IN hits # {} => Range(state'.selectedStickerIds) = hits
    ]_vars

\* C22: while a drag is in progress (isDragging is true, between START_DRAG
\* and END_DRAG), SELECT_STICKER and SELECT_STICKERS leave selectedStickerIds
\* unchanged, the SELECT_STICKER that the drag start itself dispatches after
\* START_DRAG included.
C22_NoSelectionMidDrag ==
  [][/\ \A id \in SelectIds :
          (state.isDragging /\ SelectSticker(id)) =>
            state'.selectedStickerIds = state.selectedStickerIds
     /\ \A ids \in SelectionPayloads :
          (state.isDragging /\ SelectStickers(ids)) =>
            state'.selectedStickerIds = state.selectedStickerIds
     /\ \A id \in StickerIds :
          stickerDragStart(id) => state'.selectedStickerIds = state.selectedStickerIds
    ]_vars

\* C23: a persisted blob whose version is not STATE_VERSION is never
\* installed as the live state: loading it surfaces a StateError and the
\* state stays the initial one; what startup installs is what loadState
\* returns.
C23_UnknownVersionRefused ==
  [][PageLoad =>
       LET r == loadState(storage) IN
       /\ r.error # "" => (state' = initialState /\ thrown' = r.error)
       /\ r.found => state' = r.state
    ]_vars

C25_FramesCommitNothing ==
  [][/\ \A w \in Sizes, h \in Sizes : handleResize(w, h) => state'.stickers = state.stickers
     /\ \A r \in Angles : handleMove(r) => state'.stickers = state.stickers
    ]_vars

C27_HistoryCapped == Len(history) < MaxHistory

C29_SelectionHasNoDuplicates ==
  \A i, j \in 1..Len(state.selectedStickerIds) :
    state.selectedStickerIds[i] = state.selectedStickerIds[j] => i = j

\* C30: every key k of stickers maps to a sticker whose id is k, and every
\* key k of segments to a segment whose id is k, in every state reached
\* through reducer actions other than LOAD_STATE.
C30_KeysAreIds ==
  /\ \A k \in DOMAIN state.stickers :
       Has(state.stickers[k], "id") /\ state.stickers[k].id = k
  /\ \A k \in DOMAIN state.segments :
       Has(state.segments[k], "id") /\ state.segments[k].id = k

\* C31: every id in selectedStickerIds is a key of stickers: an action that
\* deletes stickers, the cascade of REMOVE_SEGMENT included, also removes
\* the deleted ids from the selection.
C31_DeletedLeaveSelection ==
  [][\A id \in DOMAIN state.stickers \ DOMAIN state'.stickers :
       id \notin Range(state'.selectedStickerIds)]_vars

\* C32: whenever isMultiSelectMode is false, selectedStickerIds has at most
\* one element.
C32_SingleModeSelectsOne ==
  ~state.isMultiSelectMode => Len(state.selectedStickerIds) <= 1

\* C33: ADD_STICKER never changes or removes a sticker that already exists:
\* every sticker of the state before is the same after, the one with the
\* payload's id included, and segments, segmentOrder, groups and selection
\* are unchanged.
C33_AddStickerKeepsExisting ==
  [][\A p \in StickerPayloads :
       AddSticker(p) =>
         /\ \A k \in DOMAIN state.stickers :
              k \in DOMAIN state'.stickers /\ state'.stickers[k] = state.stickers[k]
         /\ state'.segments = state.segments
         /\ state'.segmentOrder = state.segmentOrder
         /\ state'.stickerGroups = state.stickerGroups
         /\ state'.selectedStickerIds = state.selectedStickerIds
    ]_vars

\* C34: group membership is many-to-one: a sticker id occurs at most once in
\* the stickerIds of a group and in the stickerIds of at most one group.
C34_OneGroupPerSticker ==
  \A g, h \in DOMAIN state.stickerGroups :
    \A i \in 1..Len(state.stickerGroups[g].stickerIds),
       j \in 1..Len(state.stickerGroups[h].stickerIds) :
      state.stickerGroups[g].stickerIds[i] = state.stickerGroups[h].stickerIds[j]
        => g = h /\ i = j

\* C35: ADD_TO_GROUP or REMOVE_FROM_GROUP naming a groupId that is not a key
\* of stickerGroups is a no-op: the state is returned unchanged, no group
\* entry is created and no error is raised.
C35_MissingGroupIsNoOp ==
  [][\A p \in MemberPayloads :
       (p.groupId \notin DOMAIN state.stickerGroups
          /\ (AddToGroup(p) \/ RemoveFromGroup(p)))
       => (state' = state /\ thrown' = "")
    ]_vars

\* C36: MOVE_STICKER, RESIZE_STICKER, ROTATE_STICKER and SET_STICKER_ZINDEX
\* with an id that is not a key of stickers return the state unchanged; with
\* a present id they write the fields named in the payload on that one
\* sticker and leave its other fields, every other sticker, segments,
\* segmentOrder, stickerGroups and selectedStickerIds unchanged.
C36_StickerEditsFramed ==
  [][\A a \in EditActions :
       Dispatch(a) =>
         LET id == a.payload.id
             named == DOMAIN a.payload \ {"id"}
         IN IF id \notin DOMAIN state.stickers
            THEN state' = state
            ELSE /\ DOMAIN state'.stickers = DOMAIN state.stickers
                 /\ \A k \in DOMAIN state.stickers \ {id} :
                      state'.stickers[k] = state.stickers[k]
                 /\ DOMAIN state'.stickers[id] = DOMAIN state.stickers[id] \cup named
                 /\ \A f \in named : state'.stickers[id][f] = a.payload[f]
                 /\ \A f \in DOMAIN state.stickers[id] \ named :
                      state'.stickers[id][f] = state.stickers[id][f]
                 /\ state'.segments = state.segments
                 /\ state'.segmentOrder = state.segmentOrder
                 /\ state'.stickerGroups = state.stickerGroups
                 /\ state'.selectedStickerIds = state.selectedStickerIds
    ]_vars

\* s1 has been moved, resized, rotated and layered while it was selected and
\* s2 lay beside it as it was placed
C36_Witness ==
  /\ DOMAIN state.stickers = {"s1", "s2"}
  /\ state.selectedStickerIds = <<"s1">>
  /\ Has(state.stickers["s1"], "rotation") /\ state.stickers["s1"].rotation = 90
  /\ Has(state.stickers["s1"], "zIndex")
  /\ state.stickers["s1"].zIndex = Z_INDEX.STICKER_DRAGGING
  /\ state.stickers["s1"].width = 2
  /\ state.stickers["s1"].x = 0
  /\ state.stickers["s1"].timeSegmentId = "day-2"
  /\ state.stickers["s2"].width = 1
  /\ ~Has(state.stickers["s2"], "rotation")

\* C37: once the history is initialised, in every quiescent state (no effect
\* pending) historyIndex is an index of history, and the snapshot at
\* historyIndex has the stickers, segments and segmentOrder of the live
\* state.
C37_IndexPointsAtLiveState ==
  (mounted /\ ~effectPending /\ history # <<>>) =>
    /\ 0 <= historyIndex
    /\ historyIndex <= Len(history) - 1
    /\ history[historyIndex + 1].state.stickers = state.stickers
    /\ history[historyIndex + 1].state.segments = state.segments
    /\ history[historyIndex + 1].state.segmentOrder = state.segmentOrder

\* an undo stepped back from a later snapshot, its effect has run, and the
\* board is quiescent again
C37_Witness ==
  /\ mounted
  /\ ~effectPending
  /\ Len(trail) = 2
  /\ trail[2].op = "Undo"
  /\ trail[2].historyIndex > 0
  /\ history # trail[2].history
  /\ state.stickers # trail[2].state.stickers
  /\ Len(history) >= 2

\* C38: every state change is eventually persisted: once a save is pending,
\* a write of the state the board has then eventually occurs, also when the
\* canvas unmounts or a settings change re-arms the timer before the delay
\* has elapsed.
C38_EventuallyPersisted == (timers # {}) ~> (storage = Stringify(state))

\* C39: with a sticker selected, bringToFront results in a state where that
\* sticker's zIndex is strictly greater than the zIndex of every other
\* sticker, and sendToBack in a state where its zIndex is at most that of
\* every other sticker and not below 0.
C39_LayerButtonsReorder ==
  (trail # <<>> /\ trail[Len(trail)].op \in {"bringToFront", "sendToBack"}
     /\ Len(trail[Len(trail)].state.selectedStickerIds) = 1
     /\ trail[Len(trail)].state.selectedStickerIds[1] \in DOMAIN state.stickers) =>
    LET id == trail[Len(trail)].state.selectedStickerIds[1]
        others == DOMAIN state.stickers \ {id}
    IN IF trail[Len(trail)].op = "bringToFront"
       THEN \A k \in others : state.stickers[id].zIndex > state.stickers[k].zIndex
       ELSE /\ \A k \in others : state.stickers[id].zIndex <= state.stickers[k].zIndex
            /\ state.stickers[id].zIndex >= 0

====
